---- MODULE Spec2Model ----
(***************************************************************************)
(* Clinic phone assistant: the request pipeline of app/main.py             *)
(* (authentication, transcript validation, sliding-window rate limiting,   *)
(* provider call, response / event stream) as a state machine.             *)
(*                                                                         *)
(* Text is modelled as TLA+ strings, read character by character with      *)
(* SubSeq.  Time is modelled in ticks of 1/TicksPerSecond seconds, so that *)
(* time.time() values that are not whole seconds exist in the model.       *)
(***************************************************************************)
EXTENDS Integers, Sequences, FiniteSets, TLC

VARIABLES
    settings,       \* app.config.settings (loaded once, read-only afterwards)
    clock,          \* the value time.time() returns now, in ticks
    request_log,    \* app.security._request_log: identity -> list of timestamps
    req,            \* the in-flight requests, one record per request slot
    admitted        \* history: identity -> the times, within the last 60
                    \* seconds, at which check_rate_limit admitted a request

vars == <<settings, clock, request_log, req, admitted>>

(***************************************************************************)
(* Bounds of the model                                                     *)
(***************************************************************************)
TicksPerSecond == 2
MaxClockSeconds == 120
MaxRpm == 2
ChunkLen == 40

Slots == {1, 2}

(***************************************************************************)
(* Text helpers (str methods used by the code)                             *)
(***************************************************************************)
Ch(s, i) == SubSeq(s, i, i)

Drop(s, n) == SubSeq(s, n + 1, Len(s))

Min(a, b) == IF a <= b THEN a ELSE b

\* str.isspace() on one ASCII character
IsSpace(c) == c \in {" ", "\t", "\n", "\r"}

RECURSIVE lstrip(_)
lstrip(s) == IF Len(s) > 0 /\ IsSpace(Ch(s, 1)) THEN lstrip(Drop(s, 1)) ELSE s

RECURSIVE rstrip(_)
rstrip(s) ==
    IF Len(s) > 0 /\ IsSpace(Ch(s, Len(s)))
    THEN rstrip(SubSeq(s, 1, Len(s) - 1))
    ELSE s

\* str.strip()
strip(s) == rstrip(lstrip(s))

\* str.find(sub) + 1: the first position where sub occurs in s, 0 if none
Find(s, sub) ==
    LET hits == {i \in 1..(Len(s) - Len(sub) + 1) :
                    SubSeq(s, i, i + Len(sub) - 1) = sub}
    IN IF hits = {} THEN 0 ELSE CHOOSE i \in hits : \A j \in hits : i <= j

\* sub in s
Contains(s, sub) == Find(s, sub) > 0

\* str.split(sep) for a one-character separator
RECURSIVE split(_, _)
split(s, sep) ==
    LET i == Find(s, sep)
    IN IF i = 0
       THEN <<s>>
       ELSE <<SubSeq(s, 1, i - 1)>> \o split(Drop(s, i), sep)

(***************************************************************************)
(* app/config.py                                                           *)
(***************************************************************************)
\* [k.strip() for k in parts if k.strip()]
RECURSIVE StripNonEmpty(_)
StripNonEmpty(parts) ==
    IF Len(parts) = 0
    THEN <<>>
    ELSE LET k == strip(Head(parts))
         IN (IF Len(k) > 0 THEN <<k>> ELSE <<>>) \o StripNonEmpty(Tail(parts))

\* Settings.api_keys_list
api_keys_list(api_keys) ==
    IF Len(api_keys) = 0
    THEN <<>>
    ELSE StripNonEmpty(split(api_keys, ","))

\* The values of API_KEYS the model is started with
ApiKeysValues == {"", " a,,b "}

\* The values of RATE_LIMIT_RPM the model is started with (any int is accepted)
RpmValues == 0..MaxRpm

(***************************************************************************)
(* app/security.py: authentication                                         *)
(***************************************************************************)
\* Optional[str]: None is the empty tuple, a string s is <<s>>
None == <<>>

Some(s) == <<s>>

VerifyApiKeyMissingFirst(api_key) ==
    LET allowed_keys == api_keys_list(settings.api_keys)
    IN IF api_key = None \/ Len(api_key[1]) = 0
       THEN [status |-> 401, identity |-> ""]
       ELSE IF Len(allowed_keys) = 0
       THEN [status |-> 0, identity |-> "anonymous"]
       ELSE IF \A i \in 1..Len(allowed_keys) : allowed_keys[i] # api_key[1]
       THEN [status |-> 403, identity |-> ""]
       ELSE [status |-> 0, identity |-> api_key[1]]

\* What verify_api_key returns or raises: status 0 is a normal return
verify_api_key(api_key) ==
    LET allowed_keys == api_keys_list(settings.api_keys)
    IN IF Len(allowed_keys) = 0
       THEN [status |-> 0, identity |-> "anonymous"]
       ELSE IF api_key = None \/ Len(api_key[1]) = 0
       THEN [status |-> 401, identity |-> ""]
       ELSE IF \A i \in 1..Len(allowed_keys) : allowed_keys[i] # api_key[1]
       THEN [status |-> 403, identity |-> ""]
       ELSE [status |-> 0, identity |-> api_key[1]]

(***************************************************************************)
(* app/security.py: sliding-window rate limiter                            *)
(***************************************************************************)
WindowSeconds == 60

\* window_seconds, in ticks
Window == WindowSeconds * TicksPerSecond

\* int(x) of Python for x = n / d, d > 0: truncation toward zero
IntOf(n, d) == IF n >= 0 THEN n \div d ELSE -((-n) \div d)

\* _request_log[k] of a defaultdict(list), read without creating the entry
LogGet(log, k) == IF k \in DOMAIN log THEN log[k] ELSE <<>>

\* _request_log[k] = v
LogPut(log, k, v) == [x \in DOMAIN log \cup {k} |-> IF x = k THEN v ELSE log[x]]

PruneEarly(timestamps, now) ==
    SelectSeq(timestamps, LAMBDA t : now - t < Window - 1)

PruneInclusive(timestamps, now) ==
    SelectSeq(timestamps, LAMBDA t : now - t <= Window)

\* [t for t in timestamps if now - t < window_seconds]
Prune(timestamps, now) == SelectSeq(timestamps, LAMBDA t : now - t < Window)

\* int(window_seconds - (now - oldest)) + 1, in seconds
RetryAfter(now, oldest) == IntOf(Window - (now - oldest), TicksPerSecond) + 1

CheckRateLimitOffByOne(api_key, now) ==
    IF ~settings.rate_limit_enabled
    THEN [log |-> request_log, status |-> 0, retry_after |-> 0]
    ELSE LET max_requests == settings.rate_limit_rpm
             pruned == Prune(LogGet(request_log, api_key), now)
         IN IF Len(pruned) > max_requests
            THEN [log |-> LogPut(request_log, api_key, pruned),
                  status |-> 429,
                  retry_after |-> RetryAfter(now, pruned[1])]
            ELSE [log |-> LogPut(request_log, api_key, Append(pruned, now)),
                  status |-> 0, retry_after |-> 0]

CheckRateLimitRecordsRejected(api_key, now) ==
    IF ~settings.rate_limit_enabled
    THEN [log |-> request_log, status |-> 0, retry_after |-> 0]
    ELSE LET max_requests == settings.rate_limit_rpm
             pruned == Prune(LogGet(request_log, api_key), now)
         IN IF Len(pruned) >= max_requests
            THEN [log |-> LogPut(request_log, api_key, Append(pruned, now)),
                  status |-> IF Len(pruned) = 0 THEN 500 ELSE 429,
                  retry_after |-> IF Len(pruned) = 0 THEN 0
                                  ELSE RetryAfter(now, pruned[1])]
            ELSE [log |-> LogPut(request_log, api_key, Append(pruned, now)),
                  status |-> 0, retry_after |-> 0]

CheckRateLimitOneWindow(api_key, now) ==
    IF ~settings.rate_limit_enabled
    THEN [log |-> request_log, status |-> 0, retry_after |-> 0]
    ELSE LET max_requests == settings.rate_limit_rpm
             pruned == Prune(LogGet(request_log, "anonymous"), now)
         IN IF Len(pruned) >= max_requests
            THEN IF Len(pruned) = 0
                 THEN [log |-> LogPut(request_log, "anonymous", pruned),
                       status |-> 500, retry_after |-> 0]
                 ELSE [log |-> LogPut(request_log, "anonymous", pruned),
                       status |-> 429,
                       retry_after |-> RetryAfter(now, pruned[1])]
            ELSE [log |-> LogPut(request_log, "anonymous", Append(pruned, now)),
                  status |-> 0, retry_after |-> 0]

\* check_rate_limit(api_key) called when time.time() is now: the table it
\* leaves and how it ends (status 0: returns None; 429: HTTPException;
\* 500: the IndexError of _request_log[api_key][0] on an empty list)
check_rate_limit(api_key, now) ==
    IF ~settings.rate_limit_enabled
    THEN [log |-> request_log, status |-> 0, retry_after |-> 0]
    ELSE LET max_requests == settings.rate_limit_rpm
             timestamps == LogGet(request_log, api_key)
             pruned == Prune(timestamps, now)
         IN IF Len(pruned) >= max_requests
            THEN IF Len(pruned) = 0
                 THEN [log |-> LogPut(request_log, api_key, pruned),
                       status |-> 500, retry_after |-> 0]
                 ELSE [log |-> LogPut(request_log, api_key, pruned),
                       status |-> 429,
                       retry_after |-> RetryAfter(now, pruned[1])]
            ELSE [log |-> LogPut(request_log, api_key, Append(pruned, now)),
                  status |-> 0, retry_after |-> 0]

(***************************************************************************)
(* app/models.py: TranscriptRequest                                        *)
(***************************************************************************)
MinLength == 10

MaxLength == 50000

Letters ==
    {"a", "b", "c", "d", "e", "f", "g", "h", "i", "j", "k", "l", "m",
     "n", "o", "p", "q", "r", "s", "t", "u", "v", "w", "x", "y", "z",
     "A", "B", "C", "D", "E", "F", "G", "H", "I", "J", "K", "L", "M",
     "N", "O", "P", "Q", "R", "S", "T", "U", "V", "W", "X", "Y", "Z"}

Digits == {"0", "1", "2", "3", "4", "5", "6", "7", "8", "9"}

\* str.isalpha() on one ASCII character
IsAlpha(c) == c \in Letters

\* \w of the re module on one ASCII character
IsWordChar(c) == c \in Letters \cup Digits \cup {"_"}

\* The character at position i, the empty string outside the text
ChAt(s, i) == IF i >= 1 /\ i <= Len(s) THEN SubSeq(s, i, i) ELSE ""

\* The literal lit occurs in s at position i
LitAt(s, i, lit) ==
    /\ i >= 1
    /\ i + Len(lit) - 1 <= Len(s)
    /\ SubSeq(s, i, i + Len(lit) - 1) = lit

\* \b between positions i - 1 and i
WordBoundary(s, i) == IsWordChar(ChAt(s, i - 1)) # IsWordChar(ChAt(s, i))

\* The position after the longest run of \s starting at position i
SkipSpaces(s, i) ==
    CHOOSE k \in i..(Len(s) + 1) :
        /\ \A m \in i..(k - 1) : IsSpace(ChAt(s, m))
        /\ ~IsSpace(ChAt(s, k))

\* The position after the longest run of \w starting at position i
SkipWord(s, i) ==
    CHOOSE k \in i..(Len(s) + 1) :
        /\ \A m \in i..(k - 1) : IsWordChar(ChAt(s, m))
        /\ ~IsWordChar(ChAt(s, k))

\* \b(?:kw1|kw2|...)\s+\w+ is found in s
KeywordThenName(s, keywords) ==
    \E i \in 1..Len(s) : \E kw \in keywords :
        /\ WordBoundary(s, i)
        /\ LitAt(s, i, kw)
        /\ IsSpace(ChAt(s, i + Len(kw)))
        /\ IsWordChar(ChAt(s, SkipSpaces(s, i + Len(kw))))

\* r"\b(?:def|class|function|import|require|const|let|var)\s+\w+"
PatDeclaration(s) ==
    KeywordThenName(s, {"def", "class", "function", "import", "require",
                        "const", "let", "var"})

\* r"[{};]\s*$" with re.MULTILINE: $ is the end of the text or before a \n
PatLineEnd(s) ==
    \E i \in 1..Len(s) :
        /\ ChAt(s, i) \in {"{", "}", ";"}
        /\ LET k == SkipSpaces(s, i + 1)
           IN \/ k = Len(s) + 1
              \/ \E m \in (i + 1)..(k - 1) : ChAt(s, m) = "\n"

\* r"\b(?:if|for|while)\s*\(.*\)\s*[{:]"
PatControlFlow(s) ==
    \E i \in 1..Len(s) : \E kw \in {"if", "for", "while"} :
        /\ WordBoundary(s, i)
        /\ LitAt(s, i, kw)
        /\ LET j == SkipSpaces(s, i + Len(kw))
           IN /\ ChAt(s, j) = "("
              /\ \E k \in (j + 1)..Len(s) :
                    /\ ChAt(s, k) = ")"
                    /\ \A m \in (j + 1)..(k - 1) : ChAt(s, m) # "\n"
                    /\ ChAt(s, SkipSpaces(s, k + 1)) \in {"{", ":"}

\* r"(?:=>|->|\|\|)\s"
PatArrow(s) ==
    \E i \in 1..Len(s) : \E op \in {"=>", "->", "||"} :
        LitAt(s, i, op) /\ IsSpace(ChAt(s, i + 2))

\* r"^\s*(?://|#!|/\*)" with re.MULTILINE: ^ is the start of a line
PatComment(s) ==
    \E i \in 1..Len(s) : \E op \in {"//", "#!", "/*"} :
        /\ i = 1 \/ ChAt(s, i - 1) = "\n"
        /\ LitAt(s, SkipSpaces(s, i), op)

\* r"</?(?:div|span|html|body|script|head|p|a|img|ul|li|table)\b"
PatHtmlOpen(s) ==
    \E i \in 1..Len(s) : \E j \in {i + 1, i + 2} :
        \E tag \in {"div", "span", "html", "body", "script", "head", "p",
                    "a", "img", "ul", "li", "table"} :
            /\ ChAt(s, i) = "<"
            /\ j = i + 2 => ChAt(s, i + 1) = "/"
            /\ LitAt(s, j, tag)
            /\ WordBoundary(s, j + Len(tag))

\* r"</\w+>"
PatHtmlClose(s) ==
    \E i \in 1..Len(s) :
        /\ LitAt(s, i, "</")
        /\ SkipWord(s, i + 2) > i + 2
        /\ ChAt(s, SkipWord(s, i + 2)) = ">"

\* r"\bself\.\w+\s*="
PatSelfAssign(s) ==
    \E i \in 1..Len(s) :
        /\ WordBoundary(s, i)
        /\ LitAt(s, i, "self.")
        /\ SkipWord(s, i + 5) > i + 5
        /\ ChAt(s, SkipSpaces(s, SkipWord(s, i + 5))) = "="

\* r"\breturn\s+\w+"
PatReturn(s) == KeywordThenName(s, {"return"})

\* sum(1 for p in code_patterns if re.search(p, text, re.MULTILINE))
code_matches(text) ==
    (IF PatDeclaration(text) THEN 1 ELSE 0) + (IF PatLineEnd(text) THEN 1 ELSE 0)
    + (IF PatControlFlow(text) THEN 1 ELSE 0) + (IF PatArrow(text) THEN 1 ELSE 0)
    + (IF PatComment(text) THEN 1 ELSE 0) + (IF PatHtmlOpen(text) THEN 1 ELSE 0)
    + (IF PatHtmlClose(text) THEN 1 ELSE 0) + (IF PatSelfAssign(text) THEN 1 ELSE 0)
    + (IF PatReturn(text) THEN 1 ELSE 0)

\* The position of the first sentence separator [.!?\n] of s, 0 if none
FirstSeparator(s) ==
    LET hits == {i \in 1..Len(s) : ChAt(s, i) \in {".", "!", "?", "\n"}}
    IN IF hits = {} THEN 0 ELSE CHOOSE i \in hits : \A j \in hits : i <= j

\* [s.strip() for s in re.split(r'[.!?\n]+', text) if s.strip()]
RECURSIVE sentences(_)
sentences(text) ==
    LET i == FirstSeparator(text)
        piece == strip(IF i = 0 THEN text ELSE SubSeq(text, 1, i - 1))
        kept == IF Len(piece) > 0 THEN <<piece>> ELSE <<>>
    IN IF i = 0 THEN kept ELSE kept \o sentences(Drop(text, i))

\* len(text.split())
word_count(text) ==
    Cardinality({i \in 1..Len(text) :
                    ~IsSpace(ChAt(text, i))
                    /\ (i = 1 \/ IsSpace(ChAt(text, i - 1)))})

AlphaRatioLowInclusive(text) ==
    LET non_space == {i \in 1..Len(text) : ~IsSpace(ChAt(text, i))}
        alpha == {i \in non_space : IsAlpha(ChAt(text, i))}
    IN non_space # {} /\ 10 * Cardinality(alpha) <= 4 * Cardinality(non_space)

\* The non-whitespace characters of text below the 0.4 letter ratio
AlphaRatioLow(text) ==
    LET non_space == {i \in 1..Len(text) : ~IsSpace(ChAt(text, i))}
        alpha == {i \in non_space : IsAlpha(ChAt(text, i))}
    IN non_space # {} /\ 10 * Cardinality(alpha) < 4 * Cardinality(non_space)

\* len(set(sentences)) / len(sentences) < 0.4 on at least 4 sentences
RepetitionHigh(text) ==
    LET ss == sentences(text)
        distinct == {ss[i] : i \in 1..Len(ss)}
    IN Len(ss) >= 4 /\ 10 * Cardinality(distinct) < 4 * Len(ss)

ValidateTranscriptOneMatch(text) ==
    IF Len(text) < MinLength THEN "string_too_short"
    ELSE IF Len(text) > MaxLength THEN "string_too_long"
    ELSE IF Len(strip(text)) = 0 THEN "blank"
    ELSE IF AlphaRatioLow(text) THEN "special_characters"
    ELSE IF code_matches(text) >= 1 THEN "code"
    ELSE IF RepetitionHigh(text) THEN "repetition"
    ELSE IF word_count(text) < 3 THEN "too_few_words"
    ELSE "ok"

\* TranscriptRequest(transcript=text): "ok", or the reason of the first
\* failing check (the field's length constraints are checked by pydantic
\* before the mode="after" model validator runs)
validate_transcript(text) ==
    IF Len(text) < MinLength THEN "string_too_short"
    ELSE IF Len(text) > MaxLength THEN "string_too_long"
    ELSE IF Len(strip(text)) = 0 THEN "blank"
    ELSE IF AlphaRatioLow(text) THEN "special_characters"
    ELSE IF code_matches(text) >= 2 THEN "code"
    ELSE IF RepetitionHigh(text) THEN "repetition"
    ELSE IF word_count(text) < 3 THEN "too_few_words"
    ELSE "ok"

(***************************************************************************)
(* json.loads / json.dumps on the texts of the model.  A JSON value is a   *)
(* record [t, v]: its type ("str", "num", "null", "bool", "list") and its  *)
(* text.  A parsed object is the sequence of its <<key, value>> members.   *)
(* The texts of the model hold no escapes inside string literals and no    *)
(* nesting; a text that is not one flat JSON object fails, which is also   *)
(* how CallAnalysis.model_validate ends on a JSON value that is no object. *)
(***************************************************************************)
JsonNull == [t |-> "null", v |-> ""]

JsonStr(text) == [t |-> "str", v |-> text]

\* The position after the longest run of characters of cs starting at i
SkipChars(s, i, cs) ==
    CHOOSE k \in i..(Len(s) + 1) :
        /\ \A m \in i..(k - 1) : ChAt(s, m) \in cs
        /\ ChAt(s, k) \notin cs

\* -?digits(.digits)?
IsNumberText(text) ==
    LET a == IF LitAt(text, 1, "-") THEN 2 ELSE 1
        b == SkipChars(text, a, Digits)
    IN /\ a <= Len(text)
       /\ b > a
       /\ \/ b = Len(text) + 1
          \/ /\ ChAt(text, b) = "."
             /\ b + 1 <= Len(text)
             /\ SkipChars(text, b + 1, Digits) = Len(text) + 1

\* The position of the quote that closes the string literal opened at i, or 0
StringEnd(s, i) ==
    LET hits == {j \in (i + 1)..Len(s) : ChAt(s, j) = "\""}
    IN IF hits = {} THEN 0 ELSE CHOOSE j \in hits : \A k \in hits : j <= k

NoValue == [ok |-> FALSE, val |-> JsonNull, next |-> 0]

\* The JSON value that starts at position i of s, and the position after it
JsonValue(s, i) ==
    IF ChAt(s, i) = "\""
    THEN LET e == StringEnd(s, i)
         IN IF e = 0 \/ Contains(SubSeq(s, i + 1, e - 1), "\\")
            THEN NoValue
            ELSE [ok |-> TRUE, val |-> JsonStr(SubSeq(s, i + 1, e - 1)),
                  next |-> e + 1]
    ELSE IF LitAt(s, i, "null")
    THEN [ok |-> TRUE, val |-> JsonNull, next |-> i + 4]
    ELSE IF LitAt(s, i, "true")
    THEN [ok |-> TRUE, val |-> [t |-> "bool", v |-> "true"], next |-> i + 4]
    ELSE IF LitAt(s, i, "false")
    THEN [ok |-> TRUE, val |-> [t |-> "bool", v |-> "false"], next |-> i + 5]
    ELSE IF LitAt(s, i, "[]")
    THEN [ok |-> TRUE, val |-> [t |-> "list", v |-> "[]"], next |-> i + 2]
    ELSE LET e == SkipChars(s, i, Digits \cup {"-", "."})
             d == IF LitAt(s, i, "-") THEN i + 1 ELSE i
         IN IF /\ i <= Len(s)
               /\ IsNumberText(SubSeq(s, i, e - 1))
               /\ ~(ChAt(s, d) = "0" /\ ChAt(s, d + 1) \in Digits)
            THEN [ok |-> TRUE, val |-> [t |-> "num", v |-> SubSeq(s, i, e - 1)],
                  next |-> e]
            ELSE NoValue

JsonFail == [ok |-> FALSE, obj |-> <<>>]

\* The members of an object from position i on, after the members acc
RECURSIVE JsonMembers(_, _, _)
JsonMembers(s, i, acc) ==
    LET k == SkipSpaces(s, i)
        e == StringEnd(s, k)
    IN IF ChAt(s, k) # "\"" \/ e = 0
       THEN JsonFail
       ELSE LET key == SubSeq(s, k + 1, e - 1)
                c == SkipSpaces(s, e + 1)
            IN IF ChAt(s, c) # ":"
               THEN JsonFail
               ELSE LET val == JsonValue(s, SkipSpaces(s, c + 1))
                        n == SkipSpaces(s, val.next)
                    IN IF ~val.ok
                       THEN JsonFail
                       ELSE IF ChAt(s, n) = ","
                       THEN JsonMembers(s, n + 1, Append(acc, <<key, val.val>>))
                       ELSE IF ChAt(s, n) = "}" /\ SkipSpaces(s, n + 1) = Len(s) + 1
                       THEN [ok |-> TRUE, obj |-> Append(acc, <<key, val.val>>)]
                       ELSE JsonFail

\* json.loads(s) for an object; ok is FALSE where json.loads raises
json_loads(s) ==
    LET i == SkipSpaces(s, 1)
    IN IF ChAt(s, i) # "{"
       THEN JsonFail
       ELSE IF ChAt(s, SkipSpaces(s, i + 1)) = "}"
       THEN IF SkipSpaces(s, SkipSpaces(s, i + 1) + 1) = Len(s) + 1
            THEN [ok |-> TRUE, obj |-> <<>>]
            ELSE JsonFail
       ELSE JsonMembers(s, i + 1, <<>>)

\* The escape json.dumps writes for one character of a string
EscapeChar(c) ==
    IF c = "\"" THEN "\\\""
    ELSE IF c = "\\" THEN "\\\\"
    ELSE IF c = "\n" THEN "\\n"
    ELSE IF c = "\t" THEN "\\t"
    ELSE IF c = "\r" THEN "\\r"
    ELSE c

RECURSIVE Escape(_)
Escape(s) == IF Len(s) = 0 THEN "" ELSE EscapeChar(Ch(s, 1)) \o Escape(Drop(s, 1))

\* json.dumps(s) for a str s
json_dumps_str(s) == "\"" \o Escape(s) \o "\""

\* What json.loads reads back from the inside of a string literal
RECURSIVE Unescape(_)
Unescape(s) ==
    IF Len(s) = 0 THEN ""
    ELSE IF Ch(s, 1) = "\\" /\ Len(s) >= 2
    THEN (IF Ch(s, 2) = "n" THEN "\n"
          ELSE IF Ch(s, 2) = "t" THEN "\t"
          ELSE IF Ch(s, 2) = "r" THEN "\r"
          ELSE Ch(s, 2)) \o Unescape(Drop(s, 2))
    ELSE Ch(s, 1) \o Unescape(Drop(s, 1))

\* json.dumps of one value of a dumped model
JsonValueText(val) == IF val.t = "str" THEN json_dumps_str(val.v) ELSE
    IF val.t = "null" THEN "null" ELSE val.v

\* json.dumps of a dict given as its <<key, value>> members
RECURSIVE JsonMembersText(_)
JsonMembersText(pairs) ==
    IF Len(pairs) = 0 THEN ""
    ELSE json_dumps_str(pairs[1][1]) \o ": " \o JsonValueText(pairs[1][2])
         \o (IF Len(pairs) > 1 THEN ", " ELSE "")
         \o JsonMembersText(Tail(pairs))

json_dumps(pairs) == "{" \o JsonMembersText(pairs) \o "}"

(***************************************************************************)
(* app/models.py: CallAnalysis                                             *)
(***************************************************************************)
CallIntentValues ==
    {"appointment_booking", "prescription_refill", "billing_question",
     "urgent_medical_issue", "general_inquiry", "insurance_question",
     "lab_results", "referral_request"}

UrgencyLevelValues == {"low", "medium", "high"}

\* key in data
HasKey(obj, key) == \E i \in 1..Len(obj) : obj[i][1] = key

\* data.get(key): the last member of that key wins in json.loads
GetKey(obj, key) ==
    IF HasKey(obj, key)
    THEN obj[CHOOSE i \in 1..Len(obj) :
                /\ obj[i][1] = key
                /\ \A j \in (i + 1)..Len(obj) : obj[j][1] # key][2]
    ELSE JsonNull

\* A decimal text whose value lies in [0, 1] (Field(ge=0.0, le=1.0))
InUnitInterval(text) ==
    LET dot == Find(text, ".")
        whole == IF dot = 0 THEN text ELSE SubSeq(text, 1, dot - 1)
        frac == IF dot = 0 THEN "" ELSE Drop(text, dot)
    IN \/ SkipChars(whole, 1, {"0"}) = Len(whole) + 1
       \/ /\ Len(whole) >= 1
          /\ SkipChars(whole, 1, {"0"}) = Len(whole)
          /\ ChAt(whole, Len(whole)) = "1"
          /\ SkipChars(frac, 1, {"0"}) = Len(frac) + 1
       \/ /\ LitAt(whole, 1, "-")
          /\ SkipChars(whole, 2, {"0"}) = Len(whole) + 1
          /\ SkipChars(frac, 1, {"0"}) = Len(frac) + 1

\* An Optional[str] field accepts an absent key, null or a string
OptionalStrOk(obj, key) == GetKey(obj, key).t \in {"str", "null"}

\* str(float(text)) for the decimal texts of the model
FloatText(text) == IF Contains(text, ".") THEN text ELSE text \o ".0"

NoAnalysis ==
    [reasoning |-> JsonNull, intent |-> JsonNull, name |-> JsonNull,
     dob |-> JsonNull, phone |-> JsonNull, summary |-> JsonNull,
     urgency |-> JsonNull, confidence |-> JsonNull, speakers |-> JsonNull]

\* CallAnalysis.model_validate(data); ok is FALSE where it raises
model_validate(obj) ==
    LET intent == GetKey(obj, "intent")
        summary == GetKey(obj, "summary")
        urgency == GetKey(obj, "urgency")
        confidence == GetKey(obj, "confidence")
        speakers == GetKey(obj, "speakers")
        valid ==
            /\ OptionalStrOk(obj, "reasoning")
            /\ intent.t = "str" /\ intent.v \in CallIntentValues
            /\ OptionalStrOk(obj, "name")
            /\ OptionalStrOk(obj, "dob")
            /\ OptionalStrOk(obj, "phone")
            /\ summary.t = "str"
            /\ urgency.t = "str" /\ urgency.v \in UrgencyLevelValues
            /\ confidence.t \in {"num", "str"}
            /\ IsNumberText(confidence.v)
            /\ InUnitInterval(confidence.v)
            /\ HasKey(obj, "speakers") => speakers.t = "list"
    IN IF valid
       THEN [ok |-> TRUE,
             result |->
                [reasoning |-> GetKey(obj, "reasoning"),
                 intent |-> intent,
                 name |-> GetKey(obj, "name"),
                 dob |-> GetKey(obj, "dob"),
                 phone |-> GetKey(obj, "phone"),
                 summary |-> summary,
                 urgency |-> urgency,
                 confidence |-> [t |-> "num", v |-> FloatText(confidence.v)],
                 speakers |-> [t |-> "list", v |-> "[]"]]]
       ELSE [ok |-> FALSE, result |-> NoAnalysis]

\* result.model_dump(): the fields in declaration order, reasoning
\* (Field(exclude=True)) left out
model_dump(result) ==
    <<<<"intent", result.intent>>, <<"name", result.name>>,
      <<"dob", result.dob>>, <<"phone", result.phone>>,
      <<"summary", result.summary>>, <<"urgency", result.urgency>>,
      <<"confidence", result.confidence>>, <<"speakers", result.speakers>>>>

(***************************************************************************)
(* app/llm/base.py                                                         *)
(***************************************************************************)
\* The backquote character: SANY's lexer accepts no backquote in a string
\* literal, so the texts of the model write it as a tilde
BackQuote == "~"

\* The three backquotes of a fenced block
Fence == BackQuote \o BackQuote \o BackQuote

\* Where group(1) starts when the opening fence is at position i
FenceBodyStart(s, i) ==
    SkipSpaces(s, IF LitAt(s, i + 3, "json") THEN i + 7 ELSE i + 3)

\* The positions m from which \s* and a closing fence match
FenceCloses(s, q) == {m \in q..Len(s) : LitAt(s, SkipSpaces(s, m), Fence)}

\* re.search(fence (?:json)?\s*(.*?)\s* fence, s, re.DOTALL): whether it
\* matches, and group(1) of the leftmost match
FenceSearch(s) ==
    LET opens == {i \in 1..Len(s) :
                    LitAt(s, i, Fence)
                    /\ FenceCloses(s, FenceBodyStart(s, i)) # {}}
    IN IF opens = {}
       THEN [found |-> FALSE, group |-> ""]
       ELSE LET i == CHOOSE x \in opens : \A y \in opens : x <= y
                q == FenceBodyStart(s, i)
                closes == FenceCloses(s, q)
                m == CHOOSE x \in closes : \A y \in closes : x <= y
            IN [found |-> TRUE, group |-> SubSeq(s, q, m - 1)]

\* BaseLLMProvider._parse_response(raw); ok is FALSE where it raises
parse_response(raw) ==
    LET stripped == strip(raw)
        match == FenceSearch(stripped)
        cleaned == IF match.found THEN match.group ELSE stripped
        data == json_loads(cleaned)
    IN IF data.ok
       THEN model_validate(data.obj)
       ELSE [ok |-> FALSE, result |-> NoAnalysis]

\* A call of the backend (_call_llm): it raises, or it returns the text raw
BackendCall(raised, raw) == [raised |-> raised, raw |-> raw]

\* BaseLLMProvider.analyze(transcript) on that backend call
provider_analyze(call) ==
    IF call.raised
    THEN [ok |-> FALSE, result |-> NoAnalysis]
    ELSE parse_response(call.raw)

\* The texts the backend answers with in the model
GoodJson ==
    "{\"reasoning\": \"pain is urgent\", \"intent\": \"lab_results\", "
    \o "\"summary\": \"Call\", \"urgency\": \"low\", \"confidence\": 1}"

RawResponses ==
    {GoodJson,
     Fence \o "json\n" \o GoodJson \o "\n" \o Fence,
     "Sorry, I can not help.",
     "{\"intent\": \"pizza_order\", \"summary\": \"x\", \"urgency\": \"low\", \"confidence\": 1}",
     ""}

(***************************************************************************)
(* app/llm/openai_provider.py: the strict-schema adapter.  A JSON schema    *)
(* node (a dict) is a record of the keys the adapter reads or writes: ""    *)
(* or <<>> or FALSE stands for an absent key.  properties is the sequence   *)
(* of its <<name, node>> items in dict order, items holds no or one node.   *)
(***************************************************************************)
EmptyNode ==
    [ref |-> "", description |-> "", type |-> "", title |-> "",
     enum |-> <<>>, hasDefault |-> FALSE,
     hasProperties |-> FALSE, properties |-> <<>>,
     hasRequired |-> FALSE, required |-> <<>>,
     additionalProperties |-> "",
     anyOf |-> <<>>, items |-> <<>>,
     minimum |-> FALSE, maximum |-> FALSE]

\* sys.getrecursionlimit(), in calls of _resolve_and_fix
RecursionLimit == 8

\* prop["$ref"].split("/")[-1]
RefName(ref) == LET parts == split(ref, "/") IN parts[Len(parts)]

\* list(node["properties"].keys())
PropertyKeys(node) ==
    [i \in 1..Len(node.properties) |-> node.properties[i][1]]

\* The "$ref" in prop branch: the definition, with the description of the
\* reference site if it has one
InlineRef(prop, defs) ==
    IF prop.ref # ""
    THEN LET resolved == defs[RefName(prop.ref)]
         IN IF prop.description # ""
            THEN [resolved EXCEPT !.description = prop.description]
            ELSE resolved
    ELSE prop

\* The loop over prop["anyOf"]: an option that is a reference is replaced by
\* a copy of the definition
InlineAnyOf(prop, defs) ==
    [prop EXCEPT !.anyOf =
        [i \in 1..Len(@) |->
            IF @[i].ref # "" THEN defs[RefName(@[i].ref)] ELSE @[i]]]

RECURSIVE resolve_and_fix(_, _, _)
RECURSIVE FixProp(_, _, _)

FixPropKeepsRef(prop, defs, depth) ==
    LET popped == [prop EXCEPT !.minimum = FALSE, !.maximum = FALSE]
        rec == resolve_and_fix(popped, defs, depth + 1)
    IN [outcome |-> rec.outcome, node |-> InlineAnyOf(rec.node, defs)]

\* The body of the loop of _resolve_and_fix for one property
FixProp(prop, defs, depth) ==
    LET inlined == InlineRef(prop, defs)
        popped == [inlined EXCEPT !.minimum = FALSE, !.maximum = FALSE]
        rec == resolve_and_fix(popped, defs, depth + 1)
    IN [outcome |-> rec.outcome, node |-> InlineAnyOf(rec.node, defs)]

\* _resolve_and_fix(node, defs) as the call number depth on the stack: the
\* node it leaves, or RecursionError when the stack is exhausted
resolve_and_fix(node, defs, depth) ==
    IF depth > RecursionLimit
    THEN [outcome |-> "RecursionError", node |-> node]
    ELSE IF ~node.hasProperties
    THEN [outcome |-> "ok", node |-> node]
    ELSE LET fixed == [i \in 1..Len(node.properties) |->
                          FixProp(node.properties[i][2], defs, depth)]
         IN IF \E i \in 1..Len(fixed) : fixed[i].outcome # "ok"
            THEN [outcome |-> "RecursionError", node |-> node]
            ELSE [outcome |-> "ok",
                  node |-> [node EXCEPT
                      !.hasRequired = TRUE,
                      !.required = PropertyKeys(node),
                      !.additionalProperties = "false",
                      !.properties =
                          [i \in 1..Len(@) |-> <<@[i][1], fixed[i].node>>]]]

\* A schema document: the root node and its "$defs"
NoSchema == [defs |-> <<>>, root |-> EmptyNode]

\* _make_openai_strict_schema(pydantic_schema): how it ends, the argument
\* as the call leaves it (it works on a deepcopy), and the schema returned
make_openai_strict_schema(pydantic_schema) ==
    LET res == resolve_and_fix(pydantic_schema.root, pydantic_schema.defs, 1)
    IN [outcome |-> res.outcome,
        input |-> pydantic_schema,
        schema |-> res.node]

\* Schema nodes by kind
TypeNode(type) == [EmptyNode EXCEPT !.type = type]

RefNode(name, description) ==
    [EmptyNode EXCEPT !.ref = "#/$defs/" \o name, !.description = description]

ObjectNode(properties) ==
    [EmptyNode EXCEPT !.type = "object", !.hasProperties = TRUE,
                      !.properties = properties]

\* Optional[T]: anyOf [T, null] with default None
OptionalNode(option, description, title) ==
    [EmptyNode EXCEPT !.anyOf = <<option, TypeNode("null")>>,
                      !.hasDefault = TRUE, !.description = description,
                      !.title = title]

EnumNode(values, title) ==
    [EmptyNode EXCEPT !.type = "string", !.enum = values, !.title = title]

\* CallAnalysis.model_json_schema(): the canonical Result Schema (pydantic
\* writes the description of an enum field next to its "$ref")
CallAnalysisSchema ==
    [defs |->
        [name \in {"CallIntent", "UrgencyLevel"} |->
            IF name = "CallIntent"
            THEN EnumNode(<<"appointment_booking", "prescription_refill",
                            "billing_question", "urgent_medical_issue",
                            "general_inquiry", "insurance_question",
                            "lab_results", "referral_request">>, "CallIntent")
            ELSE EnumNode(<<"low", "medium", "high">>, "UrgencyLevel")],
     root |->
        [ObjectNode(<<
            <<"reasoning", OptionalNode(TypeNode("string"),
                               "Internal chain-of-thought reasoning", "Reasoning")>>,
            <<"intent", RefNode("CallIntent", "The primary intent of the caller")>>,
            <<"name", OptionalNode(TypeNode("string"),
                               "Caller's full name", "Name")>>,
            <<"dob", OptionalNode(TypeNode("string"),
                               "Date of birth in ISO format (YYYY-MM-DD)", "Dob")>>,
            <<"phone", OptionalNode(TypeNode("string"),
                               "Callback phone number", "Phone")>>,
            <<"summary", [TypeNode("string") EXCEPT
                               !.description = "Brief summary of the reason for calling",
                               !.title = "Summary"]>>,
            <<"urgency", RefNode("UrgencyLevel", "Urgency level of the call")>>,
            <<"confidence", [TypeNode("number") EXCEPT
                               !.description = "Model confidence in the analysis (0-1)",
                               !.title = "Confidence",
                               !.minimum = TRUE, !.maximum = TRUE]>>,
            <<"speakers", [TypeNode("array") EXCEPT
                               !.description = "List of identified speakers",
                               !.title = "Speakers",
                               !.items = <<TypeNode("string")>>]>> >>)
         EXCEPT !.title = "CallAnalysis",
                !.hasRequired = TRUE,
                !.required = <<"intent", "summary", "urgency", "confidence">>]]

\* Definitions of other schemas the adapter is applied to: an enum, an
\* object, an object that refers to both
AcyclicDefs ==
    [name \in {"Leaf", "Addr", "Person"} |->
        CASE name = "Leaf" -> EnumNode(<<"a", "b">>, "Leaf")
          [] name = "Addr" ->
                ObjectNode(<< <<"city", TypeNode("string")>>,
                              <<"zip", [TypeNode("integer") EXCEPT
                                           !.minimum = TRUE]>> >>)
          [] name = "Person" ->
                ObjectNode(<< <<"addr", RefNode("Addr", "home")>>,
                              <<"tag", RefNode("Leaf", "")>> >>)]

\* Definitions with a reference cycle: Node through a property, Tree
\* through an anyOf branch (a nullable field)
CyclicDefs ==
    [name \in {"Node", "Tree"} |->
        IF name = "Node"
        THEN ObjectNode(<< <<"next", RefNode("Node", "")>> >>)
        ELSE ObjectNode(<< <<"child", OptionalNode(RefNode("Tree", ""),
                                                   "", "Child")>> >>)]

\* The properties of the acyclic schemas
AcyclicShapes ==
    {TypeNode("string"),
     [TypeNode("number") EXCEPT !.minimum = TRUE, !.maximum = TRUE],
     RefNode("Addr", "where"),
     RefNode("Person", ""),
     OptionalNode(RefNode("Leaf", ""), "kind", "Kind"),
     OptionalNode(RefNode("Addr", ""), "where", "Addr"),
     OptionalNode(RefNode("Person", ""), "who", "Person"),
     ObjectNode(<< <<"kind", RefNode("Leaf", "kind")>> >>),
     [TypeNode("array") EXCEPT !.items = <<TypeNode("string")>>]}

CyclicShapes ==
    {RefNode("Node", "list"),
     RefNode("Tree", ""),
     OptionalNode(RefNode("Node", ""), "", "Node")}

\* The schemas the adapter is applied to: the canonical one, and objects of
\* one or two properties over the definitions above
SchemaInputs ==
    {CallAnalysisSchema}
    \cup {[defs |-> AcyclicDefs, root |-> ObjectNode(<< <<"p", a>> >>)] :
              a \in AcyclicShapes}
    \cup {[defs |-> AcyclicDefs,
           root |-> ObjectNode(<< <<"p", a>>, <<"q", b>> >>)] :
              a \in AcyclicShapes, b \in AcyclicShapes}
    \cup {[defs |-> CyclicDefs, root |-> ObjectNode(<< <<"p", a>> >>)] :
              a \in CyclicShapes}

(***************************************************************************)
(* app/main.py: the requests                                               *)
(***************************************************************************)
\* The X-API-Key header values sent in the model: none, a configured key,
\* a key that is never configured
Headers == {None, Some("a"), Some("z")}

\* The transcripts sent in the model
GoodTranscript == "Hi, I need to schedule an appointment for next week please."

Transcripts == {"", GoodTranscript, "def f(x): return x"}

\* The identities check_rate_limit is called with directly
Identities == {"a", "b"}

\* A free request slot
IdleReq ==
    [pc |-> "idle", path |-> "", header |-> None, transcript |-> "",
     api_key |-> "", checked |-> FALSE, now |-> 0, timestamps |-> <<>>,
     status |-> 0, retry_after |-> 0, invoked |-> FALSE, backend |-> "",
     raw |-> "",
     rest |-> "", chunks |-> <<>>, events |-> <<>>, body |-> "",
     aborted |-> FALSE, reason |-> "", payload |-> "",
     parsed |-> [ok |-> FALSE, result |-> NoAnalysis],
     pydantic_schema |-> NoSchema,
     strict |-> [outcome |-> "", input |-> NoSchema, schema |-> EmptyNode]]

\* f"data: {json.dumps(chunk)}\n\n"
SseEvent(chunk) == "data: " \o json_dumps_str(chunk) \o "\n\n"

DoneEvent == "data: [DONE]\n\n"

\* A POST /analyze or /analyze/stream arrives
Arrive(r) ==
    /\ req[r].pc = "idle"
    /\ \E path \in {"/analyze", "/analyze/stream"}, header \in Headers,
          transcript \in Transcripts :
          req' = [req EXCEPT ![r] =
                    [IdleReq EXCEPT !.pc = "auth", !.path = path,
                                    !.header = header,
                                    !.transcript = transcript]]
    /\ UNCHANGED <<settings, clock, request_log, admitted>>

\* The X-API-Key header values of the clients that share the limiter: none,
\* each of the two configured keys, a key that is never configured
ClientHeaders == {None, Some("a"), Some("b"), Some("z")}

\* A POST /analyze with a valid transcript arrives from one of the clients
ClientArrive(r) ==
    /\ req[r].pc = "idle"
    /\ \E header \in ClientHeaders :
          req' = [req EXCEPT ![r] =
                    [IdleReq EXCEPT !.pc = "auth", !.path = "/analyze",
                                    !.header = header,
                                    !.transcript = GoodTranscript]]
    /\ UNCHANGED <<settings, clock, request_log, admitted>>

\* main() run with --transcript: cli_analyze, no admission control
CliStart(r) ==
    /\ req[r].pc = "idle"
    /\ \E transcript \in Transcripts :
          /\ Len(transcript) > 0
          /\ req' = [req EXCEPT ![r] =
                        [IdleReq EXCEPT !.pc = "provider", !.path = "cli",
                                        !.transcript = transcript]]
    /\ UNCHANGED <<settings, clock, request_log, admitted>>

\* The texts TranscriptRequest is constructed with directly
ValidatorTexts ==
    {"", "   ", "            ", "Hi there", "hello there", GoodTranscript,
     "ab 12 cd 345 6", "ab 12 cd 3456 7", "!@#$%^&*(){}[]|/<>+=:;!@#",
     "{};\n// 12345;", "def f(x): return x",
     "I will return tomorrow to the clinic",
     "return one, return two, return three",
     "Buy now. Buy now. Buy now. Buy now.", "a.a.a.a.a.a",
     "x;\nx;\nx;\nx;\nx;\nreturn x"}

\* TranscriptRequest(transcript=text) constructed directly
Construct(r) ==
    /\ req[r].pc = "idle"
    /\ \E text \in ValidatorTexts :
          req' = [req EXCEPT ![r] =
                    [IdleReq EXCEPT !.pc = "validate", !.path = "model",
                                    !.transcript = text]]
    /\ UNCHANGED <<settings, clock, request_log, admitted>>

\* The JSON payloads _parse_response is called on, clean or in a fence
Payloads ==
    {GoodJson,
     "{\"intent\": \"billing_question\", \"name\": null, \"phone\": \"555-9999\", "
        \o "\"summary\": \"Question\", \"urgency\": \"low\", \"confidence\": 0.9}",
     "{\"intent\": \"pizza_order\", \"summary\": \"x\", \"urgency\": \"low\", \"confidence\": 1}",
     "{\"intent\": \"lab_results\", \"summary\": \"said " \o Fence \o "ok" \o Fence
        \o " twice\", \"urgency\": \"low\", \"confidence\": 0.5}",
     "{\"intent\": \"lab_results\", \"summary\": \"a " \o Fence
        \o " b\", \"urgency\": \"low\", \"confidence\": 0.5}"}

Wrappings == {"clean", "tagged", "untagged"}

\* The payload as the backend sends it: as it is, in a fenced block with the
\* json tag, in a fenced block without a tag
Wrap(payload, wrapping) ==
    CASE wrapping = "clean" -> payload
      [] wrapping = "tagged" -> Fence \o "json\n" \o payload \o "\n" \o Fence
      [] wrapping = "untagged" -> Fence \o "\n" \o payload \o "\n" \o Fence

\* BaseLLMProvider._parse_response(raw) called directly
ParseStep(r) ==
    /\ req[r].pc = "idle"
    /\ \E payload \in Payloads, wrapping \in Wrappings :
          LET raw == Wrap(payload, wrapping)
          IN req' = [req EXCEPT ![r] =
                       [IdleReq EXCEPT !.pc = "done", !.path = "parse",
                                       !.payload = payload, !.raw = raw,
                                       !.parsed = parse_response(raw)]]
    /\ UNCHANGED <<settings, clock, request_log, admitted>>

\* _make_openai_strict_schema(pydantic_schema) called on a schema
SchemaStep(r) ==
    /\ req[r].pc = "idle"
    /\ \E schema \in SchemaInputs :
          req' = [req EXCEPT ![r] =
                    [IdleReq EXCEPT !.pc = "done", !.path = "schema",
                                    !.pydantic_schema = schema,
                                    !.strict = make_openai_strict_schema(schema)]]
    /\ UNCHANGED <<settings, clock, request_log, admitted>>

\* check_rate_limit called directly for an identity (no HTTP request)
DirectCheck(r) ==
    /\ req[r].pc = "idle"
    /\ \E k \in Identities :
          req' = [req EXCEPT ![r] =
                    [IdleReq EXCEPT !.pc = "ratelimit", !.path = "direct",
                                    !.api_key = k]]
    /\ UNCHANGED <<settings, clock, request_log, admitted>>

AuthStepAfterLimit(r) ==
    /\ req[r].pc = "auth"
    /\ LET key == IF req[r].header = None THEN "" ELSE req[r].header[1]
           res == check_rate_limit(key, clock)
           auth == verify_api_key(req[r].header)
       IN /\ request_log' = res.log
          /\ req' = [req EXCEPT ![r] =
                       IF res.status # 0
                       THEN [@ EXCEPT !.pc = "done", !.checked = TRUE,
                                      !.status = res.status]
                       ELSE IF auth.status # 0
                       THEN [@ EXCEPT !.pc = "done", !.checked = TRUE,
                                      !.status = auth.status]
                       ELSE [@ EXCEPT !.pc = "validate",
                                      !.api_key = auth.identity]]
    /\ UNCHANGED <<settings, clock, admitted>>

\* Depends(verify_api_key): resolved before the body is validated
AuthStep(r) ==
    /\ req[r].pc = "auth"
    /\ LET auth == verify_api_key(req[r].header)
       IN req' = [req EXCEPT ![r] =
                    IF auth.status # 0
                    THEN [@ EXCEPT !.pc = "done", !.status = auth.status]
                    ELSE [@ EXCEPT !.pc = "validate",
                                   !.api_key = auth.identity]]
    /\ UNCHANGED <<settings, clock, request_log, admitted>>

ValidateStepIgnored(r) ==
    /\ req[r].pc = "validate"
    /\ req' = [req EXCEPT ![r] =
                 [@ EXCEPT !.pc = IF req[r].path = "model" THEN "done"
                                  ELSE "ratelimit",
                           !.reason = "ok"]]
    /\ UNCHANGED <<settings, clock, request_log, admitted>>

ValidateStepCountsRejected(r) ==
    /\ req[r].pc = "validate"
    /\ LET reason == validate_transcript(req[r].transcript)
       IN /\ req' = [req EXCEPT ![r] =
                       IF reason # "ok"
                       THEN [@ EXCEPT !.pc = "done", !.status = 422,
                                      !.reason = reason]
                       ELSE [@ EXCEPT !.pc = IF req[r].path = "model"
                                             THEN "done" ELSE "ratelimit",
                                      !.reason = reason]]
          /\ request_log' =
                IF reason # "ok"
                THEN check_rate_limit(req[r].api_key, clock).log
                ELSE request_log
    /\ UNCHANGED <<settings, clock, admitted>>

\* request: TranscriptRequest, the body validated by pydantic; a failure
\* is answered 422 with the reason in the detail.  TranscriptRequest(...)
\* constructed directly (path "model") ends there either way.
ValidateStep(r) ==
    /\ req[r].pc = "validate"
    /\ LET reason == validate_transcript(req[r].transcript)
       IN req' = [req EXCEPT ![r] =
                    IF reason # "ok"
                    THEN [@ EXCEPT !.pc = "done", !.status = 422,
                                   !.reason = reason]
                    ELSE [@ EXCEPT !.pc = IF req[r].path = "model"
                                          THEN "done" ELSE "ratelimit",
                                   !.reason = reason]]
    /\ UNCHANGED <<settings, clock, request_log, admitted>>

RateLimitStepOverwrites(r) ==
    /\ req[r].pc = "ratelimit"
    /\ LET res == check_rate_limit(req[r].api_key, clock)
       IN /\ request_log' =
                IF settings.rate_limit_enabled /\ res.status = 0
                THEN LogPut(request_log, req[r].api_key, <<clock>>)
                ELSE res.log
          /\ req' = [req EXCEPT ![r] =
                       [@ EXCEPT !.pc = IF res.status # 0 \/ req[r].path = "direct"
                                        THEN "done" ELSE "provider",
                                 !.checked = TRUE,
                                 !.now = clock,
                                 !.timestamps =
                                    LogGet(request_log, req[r].api_key),
                                 !.status = res.status,
                                 !.retry_after = res.retry_after]]
          /\ admitted' =
                IF settings.rate_limit_enabled /\ res.status = 0
                THEN LogPut(admitted, req[r].api_key,
                            Append(LogGet(admitted, req[r].api_key), clock))
                ELSE admitted
    /\ UNCHANGED <<settings, clock>>

\* await check_rate_limit(api_key): no await inside, so it runs as one step
RateLimitStep(r) ==
    /\ req[r].pc = "ratelimit"
    /\ LET res == check_rate_limit(req[r].api_key, clock)
       IN /\ request_log' = res.log
          /\ req' = [req EXCEPT ![r] =
                       [@ EXCEPT !.pc = IF res.status # 0 \/ req[r].path = "direct"
                                        THEN "done" ELSE "provider",
                                 !.checked = TRUE,
                                 !.now = clock,
                                 !.timestamps =
                                    LogGet(request_log, req[r].api_key),
                                 !.status = res.status,
                                 !.retry_after = res.retry_after]]
          /\ admitted' =
                IF settings.rate_limit_enabled /\ res.status = 0
                THEN LogPut(admitted, req[r].api_key,
                            Append(LogGet(admitted, req[r].api_key), clock))
                ELSE admitted
    /\ UNCHANGED <<settings, clock>>

AnalyzeResponseBackendOnly(call) ==
    LET a == provider_analyze(call)
    IN IF a.ok
       THEN [status |-> 200, body |-> json_dumps(model_dump(a.result))]
       ELSE IF call.raised
       THEN [status |-> 502, body |-> ""]
       ELSE [status |-> 500, body |-> ""]

\* analyze_transcript after admission: provider.analyze inside try / except
\* Exception -> 502; the 200 body is the response_model serialization
analyze_response(call) ==
    LET a == provider_analyze(call)
    IN IF a.ok
       THEN [status |-> 200, body |-> json_dumps(model_dump(a.result))]
       ELSE [status |-> 502, body |-> ""]

\* cli_analyze: prints json.dumps(result.model_dump()); an exception ends
\* the process with exit status 1
cli_response(call) ==
    LET a == provider_analyze(call)
    IN IF a.ok
       THEN [status |-> 0, body |-> json_dumps(model_dump(a.result))]
       ELSE [status |-> 1, body |-> ""]

\* The provider call of /analyze and of the CLI
AnalyzeStep(r) ==
    /\ req[r].pc = "provider"
    /\ req[r].path \in {"/analyze", "cli"}
    /\ \E raised \in BOOLEAN, raw \in RawResponses :
          /\ raised => raw = ""
          /\ LET call == BackendCall(raised, raw)
                 res == IF req[r].path = "cli"
                        THEN cli_response(call)
                        ELSE analyze_response(call)
             IN req' = [req EXCEPT ![r] =
                          [@ EXCEPT !.pc = "done", !.invoked = TRUE,
                                    !.backend = IF raised THEN "raised"
                                                ELSE "returned",
                                    !.raw = raw, !.status = res.status,
                                    !.body = res.body]]
    /\ UNCHANGED <<settings, clock, request_log, admitted>>

\* analyze_transcript_stream returns the StreamingResponse (200) and the
\* server starts iterating event_stream(): provider.stream_analyze is
\* called; raw is the text the backend is going to stream
StreamOpen(r) ==
    /\ req[r].pc = "provider"
    /\ req[r].path = "/analyze/stream"
    /\ \E raw \in RawResponses :
          req' = [req EXCEPT ![r] =
                    [@ EXCEPT !.pc = "stream", !.invoked = TRUE,
                              !.backend = "streaming",
                              !.status = 200, !.raw = raw, !.rest = raw]]
    /\ UNCHANGED <<settings, clock, request_log, admitted>>

\* The event event_stream() yields for one chunk
stream_event(chunk) == SseEvent(chunk)

\* The backend yields the next chunk; event_stream yields its event
StreamChunk(r) ==
    /\ req[r].pc = "stream"
    /\ Len(req[r].rest) > 0
    /\ \E n \in {Min(ChunkLen, Len(req[r].rest)), Len(req[r].rest)} :
          LET chunk == SubSeq(req[r].rest, 1, n)
          IN req' = [req EXCEPT ![r] =
                       [@ EXCEPT !.rest = Drop(@, n),
                                 !.chunks = Append(@, chunk),
                                 !.events = Append(@, stream_event(chunk))]]
    /\ UNCHANGED <<settings, clock, request_log, admitted>>

\* The backend stream is exhausted: the final event
StreamDone(r) ==
    /\ req[r].pc = "stream"
    /\ Len(req[r].rest) = 0
    /\ req' = [req EXCEPT ![r] =
                 [@ EXCEPT !.pc = "done", !.events = Append(@, DoneEvent)]]
    /\ UNCHANGED <<settings, clock, request_log, admitted>>

\* The backend raises before the first chunk or between two chunks:
\* event_stream() has no handler, the response ends there
StreamError(r) ==
    /\ req[r].pc = "stream"
    /\ req' = [req EXCEPT ![r] =
                 [@ EXCEPT !.pc = "done", !.backend = "raised",
                           !.aborted = TRUE]]
    /\ UNCHANGED <<settings, clock, request_log, admitted>>

\* The response has been delivered; the slot is free again
Complete(r) ==
    /\ req[r].pc = "done"
    /\ req' = [req EXCEPT ![r] = IdleReq]
    /\ UNCHANGED <<settings, clock, request_log, admitted>>

\* The times of a history that lie in the trailing 60 seconds of now
Recent(times, now) == SelectSeq(times, LAMBDA t : now - t < Window)

\* Time passes (time.time() does not go back in the model)
ClockSteps == {Window - 1, Window}

Tick ==
    /\ \E d \in ClockSteps :
          /\ clock + d <= MaxClockSeconds * TicksPerSecond
          /\ clock' = clock + d
          /\ admitted' = [k \in DOMAIN admitted |->
                             Recent(admitted[k], clock + d)]
    /\ UNCHANGED <<settings, request_log, req>>

Init ==
    /\ settings \in [api_keys : ApiKeysValues,
                     rate_limit_rpm : RpmValues,
                     rate_limit_enabled : BOOLEAN]
    /\ clock = 0
    /\ request_log = <<>>
    /\ req = [r \in Slots |-> IdleReq]
    /\ admitted = <<>>

\* The HTTP and CLI pipeline, one request in flight at a time
HttpSlots == {1}

Next ==
    \/ Tick
    \/ \E r \in HttpSlots :
          \/ Arrive(r)
          \/ CliStart(r)
          \/ AuthStep(r)
          \/ ValidateStep(r)
          \/ RateLimitStep(r)
          \/ AnalyzeStep(r)
          \/ StreamOpen(r)
          \/ StreamChunk(r)
          \/ StreamDone(r)
          \/ StreamError(r)
          \/ Complete(r)

Spec == Init /\ [][Next]_vars

\* The rate limiter alone: check_rate_limit called for the identities, from
\* several callers, as time passes
LimiterNext ==
    \/ Tick
    \/ \E r \in Slots :
          \/ DirectCheck(r)
          \/ RateLimitStep(r)
          \/ Complete(r)

LimiterSpec == Init /\ [][LimiterNext]_vars

\* Admission control for several clients: requests to /analyze from the
\* clients, one after the other, each authenticated and then rate limited
ClientsNext ==
    \/ Tick
    \/ \E r \in HttpSlots :
          \/ ClientArrive(r)
          \/ AuthStep(r)
          \/ ValidateStep(r)
          \/ RateLimitStep(r)
          \/ AnalyzeStep(r)
          \/ Complete(r)

ClientsSpec == Init /\ [][ClientsNext]_vars

\* The input validator alone: TranscriptRequest constructed on the texts
ValidatorNext ==
    \E r \in HttpSlots :
        \/ Construct(r)
        \/ ValidateStep(r)
        \/ Complete(r)

ValidatorSpec == Init /\ [][ValidatorNext]_vars

\* The response parser alone
ParserNext ==
    \E r \in HttpSlots :
        \/ ParseStep(r)
        \/ Complete(r)

ParserSpec == Init /\ [][ParserNext]_vars

\* The strict-schema adapter alone
SchemaNext ==
    \E r \in HttpSlots :
        \/ SchemaStep(r)
        \/ Complete(r)

SchemaSpec == Init /\ [][SchemaNext]_vars

(***************************************************************************)
(* Properties                                                              *)
(***************************************************************************)
HttpPaths == {"/analyze", "/analyze/stream"}

\* The configured set of valid credentials
ConfiguredKeys ==
    LET keys == api_keys_list(settings.api_keys)
    IN {keys[i] : i \in 1..Len(keys)}

\* Authentication is on and the header is missing or no configured key
BadCredential(header) ==
    /\ ConfiguredKeys # {}
    /\ header = None \/ header[1] \notin ConfiguredKeys

\* The identity is at or over the ceiling now
OverLimit(identity) ==
    /\ settings.rate_limit_enabled
    /\ Len(Prune(LogGet(request_log, identity), clock)) >= settings.rate_limit_rpm

\* The smallest integer >= n / d, for d > 0
CeilDiv(n, d) == IF n >= 0 THEN (n + d - 1) \div d ELSE -((-n) \div d)

\* A call of check_rate_limit that found the window of its identity holding
\* as many timestamps as the ceiling N >= 1
FullWindowCall(r) ==
    /\ req[r].checked
    /\ settings.rate_limit_enabled
    /\ settings.rate_limit_rpm >= 1
    /\ Len(req[r].timestamps) = settings.rate_limit_rpm

\* C1: with rate limiting on and ceiling N >= 1, once N requests of an
\* identity have been admitted, the next request is rejected with 429 when
\* it comes less than 60 seconds after the first of them, and admitted when
\* the first timestamp has aged out of the window (now - first >= 60).
C1_SlidingWindow ==
    \A r \in Slots :
        FullWindowCall(r) =>
            IF req[r].now - req[r].timestamps[1] < Window
            THEN req[r].status = 429
            ELSE req[r].status = 0

C1_Witness ==
    \E r1, r2 \in Slots :
        /\ FullWindowCall(r1)
        /\ req[r1].now - req[r1].timestamps[1] < Window
        /\ req[r1].status = 429
        /\ FullWindowCall(r2)
        /\ req[r2].now - req[r2].timestamps[1] >= Window
        /\ req[r2].status = 0

\* C2: on /analyze and /analyze/stream authentication runs before rate
\* limiting: a request with a missing or unrecognized credential never
\* reaches check_rate_limit and ends in 401 or 403, never in 429, also when
\* its identity is at or over the ceiling.
C2_AuthBeforeRateLimit ==
    \A r \in Slots :
        (req[r].path \in HttpPaths /\ BadCredential(req[r].header)) =>
            /\ ~req[r].checked
            /\ req[r].pc \in {"auth", "done"}
            /\ req[r].pc = "done" => req[r].status \in {401, 403}

C2_Witness ==
    \E r \in Slots :
        /\ req[r].path \in HttpPaths
        /\ req[r].header # None
        /\ BadCredential(req[r].header)
        /\ OverLimit(req[r].header[1])
        /\ req[r].pc = "done"
        /\ req[r].status = 403

\* C3: verify_api_key has one outcome per (configured keys, token): with no
\* configured key the identity is "anonymous" whatever the token; otherwise
\* a missing token ends in 401, a token that is no configured key in 403,
\* and a configured key is returned unchanged as the identity.
C3_VerifyApiKeyOutcome ==
    \A r \in Slots :
        (req[r].path \in HttpPaths /\ req[r].pc # "auth") =>
            IF ConfiguredKeys = {}
            THEN req[r].api_key = "anonymous" /\ req[r].status \notin {401, 403}
            ELSE IF req[r].header = None
            THEN req[r].pc = "done" /\ req[r].status = 401 /\ req[r].api_key = ""
            ELSE IF req[r].header[1] \notin ConfiguredKeys
            THEN req[r].pc = "done" /\ req[r].status = 403 /\ req[r].api_key = ""
            ELSE req[r].api_key = req[r].header[1]
                 /\ req[r].status \notin {401, 403}

C3_Witness ==
    \E r \in Slots :
        /\ req[r].path \in HttpPaths
        /\ req[r].pc = "ratelimit"
        /\ req[r].header = Some("a")
        /\ req[r].api_key = "a"

\* C4: the Retry-After of a 429 is the time until the oldest surviving
\* timestamp leaves the window, rounded up to whole seconds:
\* ceil(60 - (now - oldest)).
C4_RetryAfterIsCeiling ==
    \A r \in Slots :
        (req[r].checked /\ req[r].status = 429) =>
            LET oldest == Prune(req[r].timestamps, req[r].now)[1]
            IN req[r].retry_after =
                  CeilDiv(Window - (req[r].now - oldest), TicksPerSecond)

\* C5: for every configured ceiling, a call that finds the pruned count at
\* or above the ceiling ends in 429 with a Retry-After > 0, in no other error.
C5_OverLimitIs429 ==
    \A r \in Slots :
        (/\ req[r].checked
         /\ settings.rate_limit_enabled
         /\ Len(Prune(req[r].timestamps, req[r].now)) >= settings.rate_limit_rpm)
        => req[r].status = 429 /\ req[r].retry_after > 0

\* C6 as stated: in every reachable state every stored timestamp of every
\* identity lies in the trailing 60-second window of the current time.
C6_AllStoredWithinWindow ==
    \A k \in DOMAIN request_log :
        \A i \in 1..Len(request_log[k]) : clock - request_log[k][i] < Window

\* C6, amended: right after check_rate_limit has run for an identity (rate
\* limiting on), every timestamp stored for that identity lies in the
\* trailing 60-second window of the time of that call; between two calls
\* for an identity its stored timestamps may be older.
C6_WithinWindowAfterCheck ==
    [][\A r \in Slots :
          (/\ req[r].pc = "ratelimit"
           /\ req'[r].pc # "ratelimit"
           /\ settings.rate_limit_enabled)
          => LET stored == request_log'[req[r].api_key]
             IN \A i \in 1..Len(stored) : clock' - stored[i] < Window]_vars

C6_Witness ==
    \E r \in Slots :
        /\ req[r].checked
        /\ settings.rate_limit_enabled
        /\ Len(Prune(req[r].timestamps, req[r].now)) < Len(req[r].timestamps)
        /\ req[r].api_key \in DOMAIN request_log

ProviderFailed(r) == req[r].backend = "raised" \/ ~parse_response(req[r].raw).ok

\* C8: for an admitted /analyze request every failure of the provider step,
\* the backend call raising or the returned text failing JSON parsing or
\* schema validation, ends in 502 with the same response; a provider step
\* that succeeds ends in 200.
C8_ProviderFailureIs502 ==
    \A r \in Slots :
        (req[r].path = "/analyze" /\ req[r].invoked /\ req[r].pc = "done") =>
            IF ProviderFailed(r)
            THEN req[r].status = 502 /\ req[r].body = ""
            ELSE req[r].status = 200

C8_Witness ==
    \E r \in Slots :
        /\ req[r].path = "/analyze"
        /\ req[r].invoked
        /\ req[r].pc = "done"
        /\ req[r].backend = "returned"
        /\ ~parse_response(req[r].raw).ok
        /\ req[r].status = 502

\* The reasoning trace in the backend's text, "" if there is none
ReasoningTrace(raw) ==
    LET a == parse_response(raw)
    IN IF a.ok /\ a.result.reasoning.t = "str" THEN a.result.reasoning.v ELSE ""

\* C9: the reasoning trace the backend produced is in no observable output:
\* not in the /analyze response body, not in the CLI output, not in the data
\* of a /analyze/stream event.
C9_ReasoningNeverObservable ==
    \A r \in Slots :
        LET trace == ReasoningTrace(req[r].raw)
        IN Len(trace) > 0 =>
              /\ ~Contains(req[r].body, trace)
              /\ \A i \in 1..Len(req[r].events) :
                    ~Contains(req[r].events[i], trace)

\* C10: the events of an admitted /analyze/stream request are one event per
\* fragment the provider yielded, in order, each carrying the fragment as a
\* JSON string, then one final [DONE] event; every stream that has ended has
\* [DONE] as its last event.
C10_StreamEndsWithDone ==
    \A r \in Slots :
        (req[r].path = "/analyze/stream" /\ req[r].invoked /\ req[r].pc = "done")
        => req[r].events =
              [i \in 1..(Len(req[r].chunks) + 1) |->
                  IF i <= Len(req[r].chunks)
                  THEN "data: " \o json_dumps_str(req[r].chunks[i]) \o "\n\n"
                  ELSE "data: [DONE]\n\n"]

\* C16: when several in-flight requests of one identity run check_rate_limit
\* interleaved at the suspension points of their handlers, the timestamps
\* stored for the identity that lie in the window are exactly the admissions
\* of the window, each once and in order: none lost, none recorded twice.
C16_NoLostNoDuplicate ==
    settings.rate_limit_enabled =>
        \A k \in Identities :
            Recent(LogGet(request_log, k), clock) = LogGet(admitted, k)

C16_Witness ==
    /\ settings.rate_limit_enabled
    /\ \A r \in Slots :
          /\ req[r].pc = "done"
          /\ req[r].checked
          /\ req[r].status = 0
          /\ req[r].api_key = "a"
          /\ req[r].now = clock
    /\ LogGet(request_log, "a") = <<clock, clock>>

\* C19: with a ceiling N >= 1 and a clock that does not go back, the
\* admissions of one identity that fall in the 60 seconds ending at any
\* moment are never more than N, and the stored window of the identity
\* never holds more than N timestamps.
C19_AtMostNPerWindow ==
    (settings.rate_limit_enabled /\ settings.rate_limit_rpm >= 1) =>
        \A k \in Identities :
            /\ Len(LogGet(admitted, k)) <= settings.rate_limit_rpm
            /\ Len(LogGet(request_log, k)) <= settings.rate_limit_rpm

C19_Witness ==
    /\ settings.rate_limit_enabled
    /\ settings.rate_limit_rpm >= 2
    /\ \E k \in Identities :
          /\ Len(LogGet(admitted, k)) = settings.rate_limit_rpm
          /\ LogGet(admitted, k)[1] < clock
          /\ \E r \in Slots :
                /\ req[r].checked
                /\ req[r].api_key = k
                /\ req[r].now = clock
                /\ req[r].status = 429

\* C20: a request check_rate_limit rejects records nothing: the window of
\* the identity after the rejection is its pruned window before it, with
\* the same oldest timestamp, so the moment of the next admission does not
\* move.
C20_RejectionRecordsNothing ==
    [][\A r \in Slots :
          (/\ req[r].pc = "ratelimit"
           /\ req'[r].pc # "ratelimit"
           /\ req'[r].status # 0)
          => /\ request_log'[req[r].api_key] =
                   Prune(LogGet(request_log, req[r].api_key), clock)
             /\ \A k \in DOMAIN request_log \ {req[r].api_key} :
                   request_log'[k] = request_log[k]
             /\ admitted' = admitted]_vars

C20_Witness ==
    \E r1, r2 \in Slots :
        /\ req[r1].checked /\ req[r2].checked
        /\ req[r1].api_key = req[r2].api_key
        /\ req[r1].status = 429 /\ req[r2].status = 429
        /\ req[r1].now < req[r2].now
        /\ Len(req[r1].timestamps) > 0
        /\ req[r2].timestamps = req[r1].timestamps

\* The checks of the validator, one by one
FailsBlank(text) == Len(strip(text)) = 0

FailsLength(text) == Len(text) < MinLength \/ Len(text) > MaxLength

NonSpaceCount(text) ==
    Cardinality({i \in 1..Len(text) : ~IsSpace(ChAt(text, i))})

AlphaCount(text) ==
    Cardinality({i \in 1..Len(text) : IsAlpha(ChAt(text, i))})

\* alphabetic / non-whitespace < 0.4 = 2/5
RatioBelow(text) ==
    NonSpaceCount(text) > 0 /\ 5 * AlphaCount(text) < 2 * NonSpaceCount(text)

\* How many of the nine patterns are found in the text
MatchedPatterns(text) ==
    Cardinality({i \in 1..9 :
        CASE i = 1 -> PatDeclaration(text)
          [] i = 2 -> PatLineEnd(text)
          [] i = 3 -> PatControlFlow(text)
          [] i = 4 -> PatArrow(text)
          [] i = 5 -> PatComment(text)
          [] i = 6 -> PatHtmlOpen(text)
          [] i = 7 -> PatHtmlClose(text)
          [] i = 8 -> PatSelfAssign(text)
          [] i = 9 -> PatReturn(text)})

FailsCode(text) == MatchedPatterns(text) >= 2

FailsWords(text) == word_count(text) < 3

\* A TranscriptRequest whose validation has run
Validated(r) == req[r].path = "model" /\ req[r].pc = "done"

\* The reason of the earliest failing check in the order blank, length,
\* alphabetic ratio, code patterns, repetition, word count
ReasonBlankFirst(text) ==
    IF FailsBlank(text) THEN "blank"
    ELSE IF Len(text) < MinLength THEN "string_too_short"
    ELSE IF Len(text) > MaxLength THEN "string_too_long"
    ELSE IF RatioBelow(text) THEN "special_characters"
    ELSE IF FailsCode(text) THEN "code"
    ELSE IF RepetitionHigh(text) THEN "repetition"
    ELSE IF FailsWords(text) THEN "too_few_words"
    ELSE "ok"

\* C11: validation is fail-fast in the order blank, length, alphabetic
\* ratio, code patterns, repetition, word count: the reason reported is the
\* one of the earliest failing check in that order, so a blank or empty text
\* is rejected with the blank reason.
C11_ReasonOfEarliestCheck ==
    \A r \in Slots :
        Validated(r) => req[r].reason = ReasonBlankFirst(req[r].transcript)

\* C12: a text whose ratio of letters to non-whitespace characters is below
\* 0.4 is rejected; a text whose ratio is at least 0.4, exactly 0.4
\* included, and that passes every other check is accepted.
C12_AlphaRatioThreshold ==
    \A r \in Slots :
        Validated(r) =>
            LET text == req[r].transcript
            IN /\ RatioBelow(text) => req[r].reason # "ok"
               /\ (/\ ~RatioBelow(text)
                   /\ ~FailsLength(text) /\ ~FailsBlank(text)
                   /\ ~FailsCode(text) /\ ~RepetitionHigh(text)
                   /\ ~FailsWords(text))
                  => req[r].reason = "ok"

C12_Witness ==
    \E r \in Slots :
        /\ Validated(r)
        /\ 5 * AlphaCount(req[r].transcript)
              = 2 * NonSpaceCount(req[r].transcript)
        /\ NonSpaceCount(req[r].transcript) > 0
        /\ req[r].reason = "ok"

\* C13 as stated: a text in which two or more of the patterns match is
\* rejected as code; with no or one matching pattern the code check never
\* rejects.
C13_TwoPatternsRejectAsCode ==
    \A r \in Slots :
        Validated(r) =>
            IF MatchedPatterns(req[r].transcript) >= 2
            THEN req[r].reason = "code"
            ELSE req[r].reason # "code"

\* C13, amended: a text in which two or more distinct patterns match is
\* rejected, as code unless an earlier check (length, blank, alphabetic
\* ratio) rejects it first with its own reason; with no or one matching
\* pattern, however often that one matches, the code check never rejects.
C13_TwoPatternsReject ==
    \A r \in Slots :
        Validated(r) =>
            LET text == req[r].transcript
            IN IF MatchedPatterns(text) >= 2
               THEN IF FailsLength(text) \/ FailsBlank(text) \/ RatioBelow(text)
                    THEN req[r].reason \in {"string_too_short", "string_too_long",
                                            "blank", "special_characters"}
                    ELSE req[r].reason = "code"
               ELSE req[r].reason # "code"

C13_Witness ==
    \E r \in Slots :
        /\ Validated(r)
        /\ MatchedPatterns(req[r].transcript) >= 2
        /\ RatioBelow(req[r].transcript)
        /\ req[r].reason = "special_characters"

\* The payload parsed as it is, with no search for a fence
DirectParse(payload) ==
    LET data == json_loads(strip(payload))
    IN IF data.ok
       THEN model_validate(data.obj)
       ELSE [ok |-> FALSE, result |-> NoAnalysis]

\* C15: the parser returns the same result for a clean JSON payload, for
\* the payload in a fenced block with a language tag and for the payload in
\* a fenced block without a tag, and that result is the one of the clean
\* payload's own content: no part of a clean payload is cut out as a fence.
C15_FencedParsesLikeClean ==
    \A r \in Slots :
        req[r].path = "parse" => req[r].parsed = DirectParse(req[r].payload)

\* Every node of a schema tree: the node, the nodes of its properties, of
\* its anyOf branches and of its items
RECURSIVE AllNodes(_)
AllNodes(node) ==
    {node}
    \cup UNION {AllNodes(node.properties[i][2]) : i \in 1..Len(node.properties)}
    \cup UNION {AllNodes(node.anyOf[i]) : i \in 1..Len(node.anyOf)}
    \cup UNION {AllNodes(node.items[i]) : i \in 1..Len(node.items)}

\* Every property key of the node is in its required list
AllRequired(node) ==
    /\ node.hasRequired
    /\ \A i \in 1..Len(node.properties) :
          \E j \in 1..Len(node.required) :
              node.required[j] = node.properties[i][1]

\* No node of the tree holds a "$ref"
NoRefLeft(node) == \A n \in AllNodes(node) : n.ref = ""

\* The adapter has run on the schema in slot r
Adapted(r) == req[r].path = "schema" /\ req[r].pc = "done"

\* C14: the adapter applied to the canonical Result Schema returns a tree
\* in which every object's required list holds every one of its property
\* keys and no "$ref" is left at any depth, and leaves the schema it was
\* given unmodified.
C14_CanonicalSchemaStrict ==
    \A r \in Slots :
        (Adapted(r) /\ req[r].pydantic_schema = CallAnalysisSchema) =>
            /\ req[r].strict.outcome = "ok"
            /\ \A n \in AllNodes(req[r].strict.schema) :
                  n.hasProperties => AllRequired(n)
            /\ NoRefLeft(req[r].strict.schema)
            /\ req[r].strict.input = CallAnalysisSchema

C14_Witness ==
    \E r \in Slots :
        /\ Adapted(r)
        /\ req[r].pydantic_schema = CallAnalysisSchema
        /\ Len(req[r].strict.schema.required) = 9
        /\ req[r].strict.schema.properties[2][2].enum # <<>>
        /\ req[r].strict.schema.properties[2][2].description
              = "The primary intent of the caller"

\* The names a definition refers to
DefRefs(defs, name) ==
    {RefName(n.ref) : n \in {m \in AllNodes(defs[name]) : m.ref # ""}}

\* The definitions reached from the set names in at most k steps
RECURSIVE Reached(_, _, _)
Reached(defs, names, k) ==
    IF k = 0 THEN names
    ELSE Reached(defs, names \cup UNION {DefRefs(defs, d) : d \in names}, k - 1)

\* No definition refers, directly or transitively, back to itself
Acyclic(schema) ==
    \A d \in DOMAIN schema.defs :
        d \notin Reached(schema.defs, DefRefs(schema.defs, d),
                         Cardinality(DOMAIN schema.defs))

\* The description at every reference site of the root's properties is on
\* the inlined copy
DescriptionsKept(schema, result) ==
    \A i \in 1..Len(schema.root.properties) :
        LET prop == schema.root.properties[i][2]
        IN (prop.ref # "" /\ prop.description # "") =>
              result.properties[i][2].description = prop.description

\* C17: on every acyclic schema the adapter resolves the references on
\* nested properties and inside anyOf branches, and every object of the
\* result, the objects inlined from a reference inside an anyOf branch
\* included, lists all its properties as required, forbids additional
\* properties and holds no "$ref"; a description at a reference site is kept
\* on the inlined copy.
C17_EveryObjectStrict ==
    \A r \in Slots :
        (Adapted(r) /\ Acyclic(req[r].pydantic_schema)) =>
            /\ req[r].strict.outcome = "ok"
            /\ \A n \in AllNodes(req[r].strict.schema) :
                  n.hasProperties =>
                      AllRequired(n) /\ n.additionalProperties = "false"
            /\ NoRefLeft(req[r].strict.schema)
            /\ DescriptionsKept(req[r].pydantic_schema, req[r].strict.schema)

\* C18: the adapter ends on every input: on definitions with a reference
\* cycle it ends in a rejection or a bounded result of its own, it does not
\* recurse until the stack is exhausted.
C18_CycleEndsWithoutStackExhaustion ==
    \A r \in Slots :
        Adapted(r) => req[r].strict.outcome # "RecursionError"

\* C21: a request rejected before the rate limiter (401 or 403 from
\* authentication, 422 from transcript validation) leaves the whole
\* rate-window table as it was and uses no quota; a request the limiter
\* admits (rate limiting on) has its timestamp in the window of its identity
\* before the provider is called, and it stays there when the request ends
\* in 502.
C21_RejectedEarlyUsesNoQuota ==
    /\ [][\A r \in Slots :
             (/\ req[r].path \in HttpPaths
              /\ req[r].pc \in {"auth", "validate"}
              /\ req'[r].pc = "done")
             => /\ req'[r].status \in {401, 403, 422}
                /\ request_log' = request_log
                /\ admitted' = admitted]_vars
    /\ [](\A r \in Slots :
             (/\ req[r].path \in HttpPaths
              /\ req[r].pc \in {"provider", "stream"} \/ req[r].invoked
              /\ settings.rate_limit_enabled)
             => /\ req[r].checked
                /\ \E i \in 1..Len(LogGet(request_log, req[r].api_key)) :
                      request_log[req[r].api_key][i] = req[r].now
                /\ clock - req[r].now < Window =>
                      \E i \in 1..Len(LogGet(admitted, req[r].api_key)) :
                          admitted[req[r].api_key][i] = req[r].now)

C21_Witness ==
    \E r \in Slots :
        /\ req[r].path = "/analyze"
        /\ req[r].pc = "done"
        /\ req[r].status = 502
        /\ settings.rate_limit_enabled
        /\ settings.rate_limit_rpm = 1
        /\ request_log[req[r].api_key] = <<req[r].now>>
        /\ clock = req[r].now

\* C22: rate windows are isolated per identity. A check_rate_limit call for
\* identity A leaves the stored timestamps of every other identity as they
\* were and adds no entry but A's; with rate limiting on, A is admitted
\* exactly when fewer than rate_limit_rpm of A's own requests were admitted
\* in the trailing 60 seconds; and the identities in the table are always
\* among the configured valid keys and "anonymous".
C22_WindowsIsolated ==
    /\ [](DOMAIN request_log \subseteq ConfiguredKeys \cup {"anonymous"})
    /\ [][\A r \in Slots :
             (req[r].pc = "ratelimit" /\ req'[r].pc # "ratelimit")
             => LET A == req[r].api_key
                IN /\ DOMAIN request_log \subseteq DOMAIN request_log'
                   /\ DOMAIN request_log' \subseteq DOMAIN request_log \cup {A}
                   /\ \A B \in DOMAIN request_log \ {A} :
                         request_log'[B] = request_log[B]
                   /\ settings.rate_limit_enabled
                      => (req'[r].status = 0
                          <=> Len(LogGet(admitted, A)) <
                                settings.rate_limit_rpm)]_vars

C22_Witness ==
    \E r \in Slots :
        /\ settings.rate_limit_enabled
        /\ settings.rate_limit_rpm = 1
        /\ req[r].api_key = "b" /\ req[r].checked /\ req[r].status = 0
        /\ req[r].now = clock
        /\ req[r].timestamps = <<>>
        /\ DOMAIN request_log = {"a", "b"}
        /\ request_log["a"] = <<clock>>
        /\ request_log["b"] = <<clock>>

====
